---- MODULE Spec2Model ----
(***************************************************************************)
(* Model of backend/main.py of AI-Course-Builder: the FastAPI handlers     *)
(* generate_course, get_course, submit_quiz and get_user_progress over the *)
(* MongoDB collections courses and quiz_submissions, together with the     *)
(* helpers generate_course_with_ai, fetch_youtube_resources and            *)
(* search_paid_courses.                                                    *)
(*                                                                         *)
(* Every handler is a coroutine: it runs atomically between two awaits.    *)
(* Each request occupies a slot; pc[s] is the await the handler of slot s  *)
(* is suspended at, local[s] holds its local variables, response[s] what   *)
(* it returned or raised.  Handlers of different slots interleave at the   *)
(* awaits.                                                                 *)
(***************************************************************************)
EXTENDS Integers, Sequences, FiniteSets, TLC

(***************************************************************************)
(* Bounds of the model.                                                    *)
(***************************************************************************)
\* number of requests accepted in one behaviour
MaxRequests == 2
\* the same, when the store starts filled
MaxRequestsFilled == 2

(***************************************************************************)
(* Program constants.                                                      *)
(***************************************************************************)
\* to_list(length=100) in get_user_progress
ListLimit == 100

\* the handlers that can be in flight at the same time
Slots == {"a", "b"}

\* Optional[str] user_id = None
NoUser == "<None>"
\* dict.get(key) of an absent key: None.  Option indexes are >= 0.
NoAnswer == -1

(***************************************************************************)
(* Rational numbers: Python floats are modelled as exact fractions         *)
(***************************************************************************)
RECURSIVE GCD(_, _)
GCD(a, b) == IF b = 0 THEN a ELSE GCD(b, a % b)

Frac(n, d) ==
    LET g == GCD(n, d)
    IN  IF n = 0 THEN [num |-> 0, den |-> 1]
        ELSE [num |-> n \div g, den |-> d \div g]

FracAdd(x, y) == Frac(x.num * y.den + y.num * x.den, x.den * y.den)

Zero == Frac(0, 1)

(***************************************************************************)
(* Exceptions.  An HTTPException carries status_code and detail; where the *)
(* detail is built from str(e) of a caught exception e, cause is the type  *)
(* of e and shown is the status code that str(e) renders (0 when it        *)
(* renders none).                                                          *)
(***************************************************************************)
Exc(type) ==
    [type |-> type, status_code |-> 0, detail |-> "", cause |-> "", shown |-> 0]

HTTPException(status_code, detail) ==
    [type |-> "HTTPException", status_code |-> status_code, detail |-> detail,
     cause |-> "", shown |-> 0]

\* str(e): starlette's HTTPException renders "status_code: detail" from 0.28 on
\* and the empty string before; every other exception renders its message.
StrShown(e) == IF e.type = "HTTPException" THEN {0, e.status_code} ELSE {0}

\* HTTPException(status_code=500, detail=f"{prefix}{str(e)}")
Wrapped(prefix, e, shown) ==
    [type |-> "HTTPException", status_code |-> 500, detail |-> prefix,
     cause |-> e.type, shown |-> shown]

Ok(v) == [ok |-> TRUE, value |-> v]
Raise(e) == [ok |-> FALSE, exc |-> e]

(***************************************************************************)
(* The AI provider.  A response either raises, or is a text in which       *)
(* re.search(r'\{.*\}') finds nothing, or finds a span json.loads rejects, *)
(* or finds a JSON object.                                                 *)
(***************************************************************************)
RequiredKeys == {"title", "description", "modules", "summary", "mcqs"}

Module(i) == [id |-> i, title |-> "M", duration |-> "2 hours", description |-> "d"]
Mcq(i, c) == [id |-> i, question |-> "Q", correct |-> c, explanation |-> "E"]

Modules == <<Module(1), Module(2)>>
Mcqs == <<Mcq(1, 0), Mcq(2, 2)>>

FullObject(mods, mcqs) ==
    [title |-> "T", description |-> "D", modules |-> mods, summary |-> "S",
     mcqs |-> mcqs]

Without(obj, k) == [x \in (DOMAIN obj) \ {k} |-> obj[x]]

\* the objects the provider can answer: the one asked for, one with no
\* modules, one with no MCQs, and one for each required key left out
JsonObjects ==
    {FullObject(Modules, Mcqs), FullObject(<<>>, Mcqs), FullObject(Modules, <<>>)}
    \cup {Without(FullObject(Modules, Mcqs), k) : k \in RequiredKeys}

NoObject == [none |-> TRUE]

AIResponses ==
    {[kind |-> k, object |-> NoObject] : k \in {"api_error", "no_json", "bad_json"}}
    \cup {[kind |-> "json", object |-> o] : o \in JsonObjects}

\* generate_course_with_ai: the try block and its two except clauses
generate_course_with_ai(ai) ==
    CASE ai.kind = "api_error" ->
            \* messages.create raises: except Exception
            Raise(Wrapped("AI generation error: ", Exc("APIError"), 0))
      [] ai.kind = "no_json" ->
            \* raise ValueError(...): except Exception
            Raise(Wrapped("AI generation error: ", Exc("ValueError"), 0))
      [] ai.kind = "bad_json" ->
            \* json.loads raises: except json.JSONDecodeError
            Raise(HTTPException(500, "Failed to parse AI response"))
      [] OTHER -> Ok(ai.object)

(***************************************************************************)
(* The video provider: two REST calls, search and batch detail.            *)
(***************************************************************************)
NotCalled == [called |-> FALSE, timeout |-> FALSE, status_code |-> 0, items |-> <<>>]

HttpResponse(status_code, items) ==
    [called |-> TRUE, timeout |-> FALSE, status_code |-> status_code, items |-> items]

TimedOut == [called |-> TRUE, timeout |-> TRUE, status_code |-> 0, items |-> <<>>]

\* what the search call can answer: no answer within 30 s, a non-success status,
\* or 200 with the video ids found (possibly none)
SearchResponses ==
    {TimedOut, HttpResponse(403, <<>>), HttpResponse(200, <<>>),
     HttpResponse(200, <<"v2", "v1">>)}

\* what the detail call can answer
VideoResponses ==
    {TimedOut, HttpResponse(500, <<>>), HttpResponse(200, <<"v2", "v1">>)}

\* str(idx + 1)
IdStr(i) == <<"1", "2", "3", "4", "5", "6", "7", "8", "9", "10">>[i]

\* Resource(...).dict(), restricted to the fields that identify the entry
YoutubeResource(idx, video_id) ==
    [id |-> IdStr(idx), type |-> "youtube",
     url |-> <<"https://www.youtube.com/watch?v=", video_id>>,
     platform |-> "<None>"]

\* fetch_youtube_resources up to its first await: the credential check
YoutubeConfigured(key) ==
    IF ~key
    THEN Raise(HTTPException(500, "YouTube API key not configured"))
    ELSE Ok(TRUE)

\* the except clauses of fetch_youtube_resources around an exception e raised
\* inside its try block
YoutubeExcept(e, shown) ==
    IF e.type = "TimeoutException"
    THEN HTTPException(504, "YouTube API request timed out")
    ELSE Wrapped("Error fetching YouTube resources: ", e, shown)

\* a variant that treats a failed search like a failed detail call
YoutubeAfterSearch_Swallowed(search, shown) ==
    IF search.timeout
    THEN [next |-> "raise", exc |-> YoutubeExcept(Exc("TimeoutException"), 0),
          resources |-> <<>>]
    ELSE IF search.status_code # 200 \/ search.items = <<>>
    THEN [next |-> "return", exc |-> Exc(""), resources |-> <<>>]
    ELSE [next |-> "detail", exc |-> Exc(""), resources |-> <<>>]

\* fetch_youtube_resources from the answer of the search call to the next
\* await.  next: "raise", "return" or "detail" (the detail call is issued).
YoutubeAfterSearch(search, shown) ==
    IF search.timeout
    THEN [next |-> "raise", exc |-> YoutubeExcept(Exc("TimeoutException"), 0),
          resources |-> <<>>]
    ELSE IF search.status_code # 200
    THEN [next |-> "raise",
          exc |-> YoutubeExcept(HTTPException(search.status_code, "YouTube API error: "),
                                shown),
          resources |-> <<>>]
    ELSE IF search.items = <<>>
    THEN [next |-> "return", exc |-> Exc(""), resources |-> <<>>]
    ELSE [next |-> "detail", exc |-> Exc(""), resources |-> <<>>]

\* a variant that treats a failed detail call like a failed search
YoutubeAfterVideo_Raising(video) ==
    IF video.timeout
    THEN [next |-> "raise", exc |-> YoutubeExcept(Exc("TimeoutException"), 0),
          resources |-> <<>>]
    ELSE IF video.status_code # 200
    THEN [next |-> "raise",
          exc |-> YoutubeExcept(HTTPException(video.status_code, "YouTube API error: "),
                                0),
          resources |-> <<>>]
    ELSE [next |-> "return", exc |-> Exc(""),
          resources |-> [i \in 1..Len(video.items) |->
                            YoutubeResource(i, video.items[i])]]

\* fetch_youtube_resources from the answer of the detail call to its return
YoutubeAfterVideo(video) ==
    IF video.timeout
    THEN [next |-> "raise", exc |-> YoutubeExcept(Exc("TimeoutException"), 0),
          resources |-> <<>>]
    ELSE IF video.status_code # 200
    THEN [next |-> "return", exc |-> Exc(""), resources |-> <<>>]
    ELSE [next |-> "return", exc |-> Exc(""),
          resources |-> [i \in 1..Len(video.items) |->
                            YoutubeResource(i, video.items[i])]]

(***************************************************************************)
(* The paid provider: a fixed mock.                                        *)
(***************************************************************************)
search_paid_courses(topic) ==
    << [id |-> "paid_1", type |-> "paid",
        url |-> <<"https://www.udemy.com/courses/search/?q=", topic>>,
        platform |-> "Udemy"],
       [id |-> "paid_2", type |-> "paid",
        url |-> <<"https://www.coursera.org/search?query=", topic>>,
        platform |-> "Coursera"] >>

(***************************************************************************)
(* Conversions.                                                            *)
(***************************************************************************)
\* a course_id string: the 24 hex digits of an ObjectId, or anything else
OidString(k) == [valid |-> TRUE, oid |-> k]
Malformed == [valid |-> FALSE, oid |-> 0]

\* str(ObjectId)
StrOid(k) == OidString(k)

\* ObjectId(course_id): raises InvalidId on a malformed string
ObjectId(str) == IF str.valid THEN Ok(str.oid) ELSE Raise(Exc("InvalidId"))

\* datetime.isoformat()
IsoFormat(t) == [iso |-> t]

(***************************************************************************)
(* State.                                                                  *)
(***************************************************************************)
VARIABLES
    YOUTUBE_API_KEY,   \* whether os.getenv("YOUTUBE_API_KEY") is set
    courses,           \* db.courses in insertion order; _id is the position
    quiz_submissions,  \* db.quiz_submissions in insertion order
    pc,                \* per slot: the await the handler is suspended at
    request,           \* per slot: the request being served
    local,             \* per slot: the handler's local variables
    response,          \* per slot: what the handler returned or raised
    budget             \* number of requests still accepted in this behaviour

vars == <<YOUTUBE_API_KEY, courses, quiz_submissions, pc, request, local,
          response, budget>>

NoAnswers == [x \in {} |-> 0]

NoRequest ==
    [op |-> "none", topic |-> "", user_id |-> NoUser, course_id |-> Malformed,
     answers |-> NoAnswers, at |-> [courses |-> 0, submissions |-> 0]]

NoGrade == [score |-> Zero, correct |-> 0, total |-> 0, results |-> <<>>]

NoLocal ==
    [course_data |-> NoObject, search |-> NotCalled, video |-> NotCalled,
     youtube_resources |-> <<>>, courses |-> <<>>, graded |-> NoGrade]

NoBody == [none |-> TRUE]

NoResponse ==
    [status_code |-> 0, detail |-> "", cause |-> "", shown |-> 0, body |-> NoBody]

\* the response FastAPI renders for a raised HTTPException
ErrorResponse(e) ==
    [status_code |-> e.status_code, detail |-> e.detail, cause |-> e.cause,
     shown |-> e.shown, body |-> NoBody]

\* the response FastAPI renders for a returned value
OkResponse(body) ==
    [status_code |-> 200, detail |-> "", cause |-> "", shown |-> 0, body |-> body]

\* the logical clock behind datetime.utcnow(): the number of documents stored
Now == Len(courses) + Len(quiz_submissions)

(***************************************************************************)
(* Inputs.                                                                 *)
(***************************************************************************)
Topics == {"recursion"}
Users == {"u1", "u2"}
\* CourseRequest.user_id
OwnerInputs == {"u1", NoUser}
\* QuizSubmission.answers
AnswerInputs == {NoAnswers, (1 :> 0) @@ (2 :> 2), (1 :> 0) @@ (2 :> 1)}
\* a malformed id, the last id stored (if any), and an id not stored
CourseIdInputs ==
    {Malformed}
    \cup {OidString(k) : k \in {Len(courses), Len(courses) + 1} \ {0}}

Init ==
    /\ YOUTUBE_API_KEY \in BOOLEAN
    /\ courses = <<>>
    /\ quiz_submissions = <<>>
    /\ pc = [s \in Slots |-> "idle"]
    /\ request = [s \in Slots |-> NoRequest]
    /\ local = [s \in Slots |-> NoLocal]
    /\ response = [s \in Slots |-> NoResponse]
    /\ budget = MaxRequests

(***************************************************************************)
(* Steps common to the handlers.                                           *)
(***************************************************************************)
\* a free slot takes the request req; at records how many documents the
\* collections hold on arrival
Accept(s, req) ==
    /\ pc[s] = "idle"
    /\ budget > 0
    /\ budget' = budget - 1
    /\ request' = [request EXCEPT ![s] =
                        [req EXCEPT !.at = [courses |-> Len(courses),
                                            submissions |-> Len(quiz_submissions)]]]

\* the handler of slot s goes on to its next await
Goto(s, at, loc) ==
    /\ pc' = [pc EXCEPT ![s] = at]
    /\ local' = [local EXCEPT ![s] = loc]
    /\ UNCHANGED response

\* the handler of slot s ends.  Its locals are kept until the response is
\* sent, as the history of what the handler saw; course_data is kept only
\* when the handler returns.
Finish(s, resp, loc) ==
    /\ pc' = [pc EXCEPT ![s] = "done"]
    /\ local' = [local EXCEPT ![s] =
                    IF resp.status_code = 200 THEN loc
                    ELSE [loc EXCEPT !.course_data = NoObject]]
    /\ response' = [response EXCEPT ![s] = resp]

\* the response is sent and the slot is free again
Deliver(s) ==
    /\ pc[s] = "done"
    /\ pc' = [pc EXCEPT ![s] = "idle"]
    /\ request' = [request EXCEPT ![s] = NoRequest]
    /\ local' = [local EXCEPT ![s] = NoLocal]
    /\ response' = [response EXCEPT ![s] = NoResponse]
    /\ UNCHANGED <<YOUTUBE_API_KEY, courses, quiz_submissions, budget>>

(***************************************************************************)
(* The handlers.  A request's arrival is one step with the handler's code  *)
(* up to its first await that another handler can observe or influence.    *)
(***************************************************************************)

(***************************************************************************)
(* POST /api/courses/generate                                              *)
(***************************************************************************)
\* the course dict of step 4; a missing key of course_data raises KeyError
BuildCourse(course_data, topic, user_id, all_resources, now) ==
    IF ~(RequiredKeys \subseteq DOMAIN course_data)
    THEN Raise(Exc("KeyError"))
    ELSE Ok([title |-> course_data["title"],
             description |-> course_data["description"],
             topic |-> topic,
             modules |-> course_data["modules"],
             resources |-> all_resources,
             summary |-> course_data["summary"],
             mcqs |-> course_data["mcqs"],
             created_at |-> now,
             user_id |-> user_id,
             progress |-> [completed |-> 0,
                           total |-> Len(course_data["modules"]),
                           percentage |-> 0]])

\* a variant that concatenates in the other order
CombineResources_PaidFirst(youtube_resources, paid_resources) ==
    paid_resources \o youtube_resources

\* all_resources = youtube_resources + paid_resources
CombineResources(youtube_resources, paid_resources) ==
    youtube_resources \o paid_resources

\* a variant that keeps one course per owner (replace_one with upsert)
InsertCourse_Upsert(coll, course) ==
    IF \E i \in DOMAIN coll : coll[i].user_id = course.user_id
    THEN LET i == CHOOSE i \in DOMAIN coll : coll[i].user_id = course.user_id
         IN  [coll EXCEPT ![i] = course @@ [_id |-> i]]
    ELSE Append(coll, course @@ [_id |-> Len(coll) + 1])

\* db.courses.insert_one(course): the store assigns the next _id
InsertCourse(coll, course) ==
    Append(coll, course @@ [_id |-> Len(coll) + 1])

\* the course returned: _id and created_at rendered as strings
RenderCourse(doc) ==
    [doc EXCEPT !._id = StrOid(doc._id), !.created_at = IsoFormat(doc.created_at)]

\* generate_course from step 3 to its end: paid resources, the course object,
\* the insert and the response; except Exception turns a KeyError into a 500.
\* loc: the locals once fetch_youtube_resources has returned.
Assemble(s, loc) ==
    LET req == request[s]
        all_resources ==
            CombineResources(loc.youtube_resources, search_paid_courses(req.topic))
        built == BuildCourse(loc.course_data, req.topic, req.user_id,
                             all_resources, Now + 1)
    IN  IF built.ok
        THEN /\ courses' = InsertCourse(courses, built.value)
             /\ Finish(s, OkResponse(RenderCourse(courses'[Len(courses')])), loc)
        ELSE /\ courses' = courses
             /\ Finish(s, ErrorResponse(Wrapped("", built.exc, 0)), loc)

\* steps 1 and 2 up to the await of the search call: messages.create is a
\* blocking call, then fetch_youtube_resources checks the credential
GenerateCourse(s) ==
    /\ \E topic \in Topics, user_id \in OwnerInputs :
          Accept(s, [NoRequest EXCEPT !.op = "generate", !.topic = topic,
                                      !.user_id = user_id])
    /\ \E ai \in AIResponses :
          LET r == generate_course_with_ai(ai)
              key == YoutubeConfigured(YOUTUBE_API_KEY)
          IN  IF ~r.ok THEN Finish(s, ErrorResponse(r.exc), local[s])
              ELSE IF ~key.ok
              THEN Finish(s, ErrorResponse(key.exc),
                          [local[s] EXCEPT !.course_data = r.value])
              ELSE Goto(s, "search", [local[s] EXCEPT !.course_data = r.value])
    /\ UNCHANGED <<YOUTUBE_API_KEY, courses, quiz_submissions>>

\* step 2: the search call answers
YoutubeSearch(s) ==
    /\ pc[s] = "search"
    /\ \E search \in SearchResponses :
       \E shown \in StrShown(HTTPException(search.status_code, "")) :
          LET r == YoutubeAfterSearch(search, shown)
              loc == [local[s] EXCEPT !.search = search]
          IN  CASE r.next = "raise" ->
                      /\ Finish(s, ErrorResponse(r.exc), loc)
                      /\ courses' = courses
                [] r.next = "detail" ->
                      /\ Goto(s, "video", loc)
                      /\ courses' = courses
                [] OTHER ->
                      Assemble(s, [loc EXCEPT !.youtube_resources = r.resources])
    /\ UNCHANGED <<YOUTUBE_API_KEY, quiz_submissions, request, budget>>

\* step 2: the detail call answers
YoutubeVideo(s) ==
    /\ pc[s] = "video"
    /\ \E video \in VideoResponses :
          LET r == YoutubeAfterVideo(video)
              loc == [local[s] EXCEPT !.video = video]
          IN  IF r.next = "raise"
              THEN /\ Finish(s, ErrorResponse(r.exc), loc)
                   /\ courses' = courses
              ELSE Assemble(s, [loc EXCEPT !.youtube_resources = r.resources])
    /\ UNCHANGED <<YOUTUBE_API_KEY, quiz_submissions, request, budget>>

(***************************************************************************)
(* The store's reads.                                                      *)
(***************************************************************************)
\* find_one({"_id": oid}): <<doc>> or <<>> (None)
FindOne(coll, oid) ==
    IF oid \in 1..Len(coll) THEN <<coll[oid]>> ELSE <<>>

\* find({"user_id": user_id}), in natural order
FindByUser(coll, user_id) ==
    SelectSeq(coll, LAMBDA d : d.user_id = user_id)

\* cursor.to_list(length=n): at most the first n documents
ToList(docs, n) ==
    IF Len(docs) <= n THEN docs ELSE SubSeq(docs, 1, n)

(***************************************************************************)
(* GET /api/courses/{course_id}                                            *)
(***************************************************************************)
\* the handler's try block: the course rendered, or the exception raised
GetCourseTry(coll, course_id) ==
    LET oid == ObjectId(course_id)
    IN  IF ~oid.ok THEN Raise(oid.exc)
        ELSE LET found == FindOne(coll, oid.value)
             IN  IF found = <<>>
                 THEN Raise(HTTPException(404, "Course not found"))
                 ELSE Ok(RenderCourse(found[1]))

\* find_one answers; except Exception wraps whatever the try block raised
GetCourse(s) ==
    /\ \E course_id \in CourseIdInputs :
          /\ Accept(s, [NoRequest EXCEPT !.op = "get_course",
                                         !.course_id = course_id])
          /\ LET r == GetCourseTry(courses, course_id)
             IN  IF r.ok
                 THEN Finish(s, OkResponse(r.value), local[s])
                 ELSE \E shown \in StrShown(r.exc) :
                         Finish(s, ErrorResponse(Wrapped("", r.exc, shown)),
                                local[s])
    /\ UNCHANGED <<YOUTUBE_API_KEY, courses, quiz_submissions>>

(***************************************************************************)
(* POST /api/quiz/submit                                                   *)
(***************************************************************************)
\* a variant that defaults a missing answer to option 0
UserAnswer_DefaultZero(answers, mcq) ==
    IF mcq.id \in DOMAIN answers THEN answers[mcq.id] ELSE 0

\* submission.answers.get(mcq["id"])
UserAnswer(answers, mcq) ==
    IF mcq.id \in DOMAIN answers THEN answers[mcq.id] ELSE NoAnswer

\* the body of the for loop: one entry of results
GradeMcq(answers, mcq) ==
    LET user_answer == UserAnswer(answers, mcq)
    IN  [question_id |-> mcq.id,
         correct |-> (user_answer = mcq.correct),
         user_answer |-> user_answer,
         correct_answer |-> mcq.correct,
         explanation |-> mcq.explanation]

\* score = (correct / total) * 100
Score(correct, total) == Frac(correct * 100, total)

\* "Calculate score": the loop and the division, which raises on total = 0
Grade(mcqs, answers) ==
    LET total == Len(mcqs)
        results == [i \in 1..total |-> GradeMcq(answers, mcqs[i])]
        correct == Len(SelectSeq(results, LAMBDA r : r.correct))
    IN  IF total = 0
        THEN Raise(Exc("ZeroDivisionError"))
        ELSE Ok([score |-> Score(correct, total), correct |-> correct,
                 total |-> total, results |-> results])

\* the try block up to the insert: the grade, or the exception raised
SubmitQuizTry(coll, submission) ==
    LET oid == ObjectId(submission.course_id)
    IN  IF ~oid.ok THEN Raise(oid.exc)
        ELSE LET found == FindOne(coll, oid.value)
             IN  IF found = <<>>
                 THEN Raise(HTTPException(404, "Course not found"))
                 ELSE Grade(found[1].mcqs, submission.answers)

\* progress_data
SubmissionRecord(submission, graded, now) ==
    [user_id |-> submission.user_id, course_id |-> submission.course_id,
     quiz_score |-> graded.score, results |-> graded.results,
     submitted_at |-> now]

\* db.quiz_submissions.insert_one(progress_data)
InsertSubmission(coll, record) == Append(coll, record)

\* find_one answers and the quiz is graded, up to the await of the insert;
\* except Exception wraps whatever the try block raised
SubmitQuiz(s) ==
    /\ \E course_id \in CourseIdInputs, user_id \in Users, answers \in AnswerInputs :
          LET submission ==
                  [NoRequest EXCEPT !.op = "submit_quiz", !.course_id = course_id,
                                    !.user_id = user_id, !.answers = answers]
              r == SubmitQuizTry(courses, submission)
          IN  /\ Accept(s, submission)
              /\ IF r.ok
                 THEN Goto(s, "quiz_insert", [local[s] EXCEPT !.graded = r.value])
                 ELSE \E shown \in StrShown(r.exc) :
                         Finish(s, ErrorResponse(Wrapped("", r.exc, shown)),
                                local[s])
    /\ UNCHANGED <<YOUTUBE_API_KEY, courses, quiz_submissions>>

\* the insert is done and the grade is returned
SubmitQuizInsert(s) ==
    /\ pc[s] = "quiz_insert"
    /\ quiz_submissions' =
          InsertSubmission(quiz_submissions,
                           SubmissionRecord(request[s], local[s].graded, Now + 1))
    /\ Finish(s, OkResponse(local[s].graded), local[s])
    /\ UNCHANGED <<YOUTUBE_API_KEY, courses, request, budget>>

(***************************************************************************)
(* GET /api/progress/{user_id}                                             *)
(***************************************************************************)
\* sum(s["quiz_score"] for s in submissions) over submissions[lo..hi]; the
\* sum is exact, so it is taken by halves to keep the evaluation shallow
RECURSIVE SumScores(_, _, _)
SumScores(submissions, lo, hi) ==
    IF lo > hi THEN Zero
    ELSE IF lo = hi THEN FracAdd(Zero, submissions[lo].quiz_score)
    ELSE LET mid == (lo + hi) \div 2
         IN  FracAdd(SumScores(submissions, lo, mid),
                     SumScores(submissions, mid + 1, hi))

\* sum(...) / len(submissions) if submissions else 0
AverageScore(submissions) ==
    IF submissions # <<>>
    THEN LET t == SumScores(submissions, 1, Len(submissions))
         IN  Frac(t.num, t.den * Len(submissions))
    ELSE Zero

\* one entry of "courses"
CourseSummary(c) ==
    [id |-> StrOid(c._id), title |-> c.title, topic |-> c.topic,
     created_at |-> IsoFormat(c.created_at)]

\* the dict returned
ProgressBody(found_courses, submissions) ==
    [total_courses |-> Len(found_courses),
     total_quizzes |-> Len(submissions),
     average_score |-> AverageScore(submissions),
     courses |-> [i \in 1..Len(found_courses) |-> CourseSummary(found_courses[i])]]

\* courses = await db.courses.find(...).to_list(length=100)
Progress(s) ==
    /\ \E user_id \in Users :
          /\ Accept(s, [NoRequest EXCEPT !.op = "progress", !.user_id = user_id])
          /\ Goto(s, "progress_submissions",
                  [local[s] EXCEPT !.courses =
                      ToList(FindByUser(courses, user_id), ListLimit)])
    /\ UNCHANGED <<YOUTUBE_API_KEY, courses, quiz_submissions>>

\* submissions = await db.quiz_submissions.find(...).to_list(length=100); return
ProgressSubmissions(s) ==
    /\ pc[s] = "progress_submissions"
    /\ Finish(s,
              OkResponse(ProgressBody(
                  local[s].courses,
                  ToList(FindByUser(quiz_submissions, request[s].user_id),
                         ListLimit))),
              local[s])
    /\ UNCHANGED <<YOUTUBE_API_KEY, courses, quiz_submissions, request, budget>>

(***************************************************************************)
(* Specifications.                                                         *)
(***************************************************************************)
Next ==
    \E s \in Slots :
        \/ GenerateCourse(s)
        \/ YoutubeSearch(s)
        \/ YoutubeVideo(s)
        \/ GetCourse(s)
        \/ SubmitQuiz(s)
        \/ SubmitQuizInsert(s)
        \/ Progress(s)
        \/ ProgressSubmissions(s)
        \/ Deliver(s)

Spec == Init /\ [][Next]_vars

(***************************************************************************)
(* The same service started on a store that earlier runs have filled: one  *)
(* user owns ListLimit courses and has ListLimit submissions.              *)
(***************************************************************************)
StoredCourse(i) ==
    LET youtube_resources ==
            YoutubeAfterVideo(HttpResponse(200, <<"v2", "v1">>)).resources
    IN  BuildCourse(FullObject(Modules, Mcqs), "recursion", "u1",
                    CombineResources(youtube_resources,
                                     search_paid_courses("recursion")),
                    i).value
        @@ [_id |-> i]

StoredCourses(n) == [i \in 1..n |-> StoredCourse(i)]

StoredSubmission(j, now) ==
    LET answers == IF j % 2 = 1 THEN (1 :> 0) @@ (2 :> 2) ELSE (1 :> 0) @@ (2 :> 1)
        submission ==
            [NoRequest EXCEPT !.op = "submit_quiz",
                              !.course_id = OidString(ListLimit),
                              !.user_id = "u1", !.answers = answers]
    IN  SubmissionRecord(submission, Grade(Mcqs, answers).value, now)

StoredSubmissions(n, base) == [j \in 1..n |-> StoredSubmission(j, base + j)]

InitFilled ==
    /\ YOUTUBE_API_KEY = TRUE
    /\ courses = StoredCourses(ListLimit)
    /\ quiz_submissions = StoredSubmissions(ListLimit, ListLimit)
    /\ pc = [s \in Slots |-> "idle"]
    /\ request = [s \in Slots |-> NoRequest]
    /\ local = [s \in Slots |-> NoLocal]
    /\ response = [s \in Slots |-> NoResponse]
    /\ budget = MaxRequestsFilled

SpecFilled == InitFilled /\ [][Next]_vars

(***************************************************************************)
(* Properties.                                                             *)
(***************************************************************************)
Done(s, op) == pc[s] = "done" /\ request[s].op = op

\* the handler of slot s ends in this step
Ends(s, op) == pc[s] # "done" /\ pc'[s] = "done" /\ request'[s].op = op

\* coll2 is coll1 with documents added at the end
Extends(coll1, coll2) ==
    /\ Len(coll1) <= Len(coll2)
    /\ \A i \in DOMAIN coll1 : coll2[i] = coll1[i]

\* the course id names a course that was stored when the request arrived
KnownCourse(req) ==
    req.course_id.valid /\ req.course_id.oid \in 1..req.at.courses

\* the AI provider's object has every required field
Complete(course_data) == RequiredKeys \subseteq DOMAIN course_data

\* both calls of the video fetch were answered as the fetch needs them: the
\* search with 200, and the detail call (issued when the search found
\* videos) before its deadline
VideoFetched(loc) ==
    /\ loc.search.called /\ ~loc.search.timeout /\ loc.search.status_code = 200
    /\ loc.search.items # <<>> => loc.video.called /\ ~loc.video.timeout

\* C1: no partial course is persisted.  A generate-course request that ends
\* in an error leaves the courses collection as it was; a request ends with
\* 200 only by inserting; and a course is inserted only by a request whose
\* content generation gave an object with every required field and whose
\* video fetch succeeded, and that request ends with 200.
C1_NoPartialCourse ==
    [][ /\ \A s \in Slots :
              Ends(s, "generate") =>
                  (response'[s].status_code # 200 <=> courses' = courses)
        /\ courses' # courses =>
              \E s \in Slots :
                  /\ Ends(s, "generate")
                  /\ response'[s].status_code = 200
                  /\ Complete(local'[s].course_data)
                  /\ VideoFetched(local'[s])
                  /\ courses' = Append(courses, courses'[Len(courses')])
      ]_vars

\* a generate-course request has failed after its video fetch was under way,
\* while the collection holds a course
C1_Witness ==
    \E s \in Slots :
        /\ Done(s, "generate")
        /\ response[s].status_code # 200
        /\ local[s].search.called
        /\ courses # <<>>

\* C2: grading an existing course with at least one MCQ gives one entry per
\* MCQ in the course's order, correct exactly when the answer submitted
\* under the MCQ's id is its correct index, correct = number of correct
\* entries, total = number of MCQs, score = 100 * correct / total; no
\* answers give 0, all answers right give 100.
C2_QuizGrading ==
    \A s \in Slots :
        (Done(s, "submit_quiz") /\ KnownCourse(request[s])
         /\ courses[request[s].course_id.oid].mcqs # <<>>) =>
            LET mcqs == courses[request[s].course_id.oid].mcqs
                answers == request[s].answers
                body == response[s].body
                right(i) == /\ mcqs[i].id \in DOMAIN answers
                            /\ answers[mcqs[i].id] = mcqs[i].correct
            IN  /\ response[s].status_code = 200
                /\ Len(body.results) = Len(mcqs)
                /\ \A i \in DOMAIN mcqs :
                      /\ body.results[i].question_id = mcqs[i].id
                      /\ body.results[i].correct = right(i)
                /\ body.correct = Cardinality({i \in DOMAIN mcqs : right(i)})
                /\ body.total = Len(mcqs)
                /\ body.score.num * body.total = 100 * body.correct * body.score.den
                /\ answers = NoAnswers => body.correct = 0 /\ body.score.num = 0
                /\ (\A i \in DOMAIN mcqs : right(i)) =>
                      body.score = [num |-> 100, den |-> 1]

\* a submission with one right and one wrong answer has been graded
C2_Witness ==
    \E s \in Slots :
        /\ Done(s, "submit_quiz")
        /\ response[s].status_code = 200
        /\ response[s].body.correct = 1
        /\ response[s].body.total = 2

\* C3: get-course and quiz-submit for a course id that is not in the
\* collection end with 404, and such a quiz-submit stores no record.
C3_NotFound ==
    \A s \in Slots :
        ((Done(s, "get_course") \/ Done(s, "submit_quiz"))
         /\ request[s].course_id.valid
         /\ request[s].course_id.oid > Len(courses)) =>
            response[s].status_code = 404

\* the resources are exactly the two paid entries
OnlyPaid(resources) ==
    /\ Len(resources) = 2
    /\ resources[1].id = "paid_1" /\ resources[1].type = "paid"
    /\ resources[2].id = "paid_2" /\ resources[2].type = "paid"

\* C4: a non-success answer of the search call fails the request and stores
\* nothing; a non-success answer of the detail call (after a search that
\* found videos, for complete AI content) lets the request end with 200 and
\* store one course whose resources are exactly paid_1 and paid_2.
C4_SearchDetailAsymmetry ==
    [][ \A s \in Slots :
          /\ (/\ pc[s] = "search" /\ Ends(s, "generate")
              /\ ~local'[s].search.timeout
              /\ local'[s].search.status_code # 200) =>
                  response'[s].status_code # 200 /\ courses' = courses
          /\ (/\ pc[s] = "video" /\ Ends(s, "generate")
              /\ local[s].search.status_code = 200 /\ local[s].search.items # <<>>
              /\ Complete(local[s].course_data)
              /\ ~local'[s].video.timeout
              /\ local'[s].video.status_code # 200) =>
                  /\ response'[s].status_code = 200
                  /\ courses' # courses
                  /\ courses' = Append(courses, courses'[Len(courses')])
                  /\ OnlyPaid(courses'[Len(courses')].resources)
                  /\ OnlyPaid(response'[s].body.resources)
      ]_vars

\* a course has been stored although the detail call answered 500
C4_Witness ==
    \E s \in Slots :
        /\ Done(s, "generate")
        /\ response[s].status_code = 200
        /\ local[s].video.called
        /\ local[s].video.status_code = 500
        /\ OnlyPaid(courses[response[s].body._id.oid].resources)

\* C5: the resources of a generated course are the video entries, one per
\* item of the detail answer and in its order, followed by the two paid
\* entries in their order; no paid entry precedes a video entry.
C5_VideoBeforePaid ==
    \A s \in Slots :
        (Done(s, "generate") /\ response[s].status_code = 200) =>
            LET resources == courses[response[s].body._id.oid].resources
                items == IF local[s].video.called /\ local[s].video.status_code = 200
                         THEN local[s].video.items ELSE <<>>
                n == Len(items)
            IN  /\ Len(resources) = n + 2
                /\ \A i \in 1..n :
                      /\ resources[i].type = "youtube"
                      /\ resources[i].url[2] = items[i]
                /\ OnlyPaid(SubSeq(resources, n + 1, n + 2))
                /\ \A i, j \in DOMAIN resources :
                      (resources[i].type = "paid" /\ resources[j].type = "youtube")
                          => j < i
                /\ response[s].body.resources = resources

\* a course with two video entries and two paid entries has been stored
C5_Witness ==
    \E s \in Slots :
        /\ Done(s, "generate")
        /\ response[s].status_code = 200
        /\ Len(local[s].video.items) = 2
        /\ Len(courses[response[s].body._id.oid].resources) = 4

\* every stored course still has the progress it was created with
ProgressUntouched(coll) ==
    \A i \in DOMAIN coll :
        coll[i].progress =
            [completed |-> 0, total |-> Len(coll[i].modules), percentage |-> 0]

C8_NonEmptyLists ==
    \A i \in DOMAIN courses :
        courses[i].modules # <<>> /\ courses[i].mcqs # <<>>

\* C9: a quiz-submit for a stored course with no MCQs ends with 200 and
\* score = 0, correct = 0, total = 0 and no results.
C9_GradingNeverFails ==
    \A s \in Slots :
        (Done(s, "submit_quiz") /\ KnownCourse(request[s])
         /\ courses[request[s].course_id.oid].mcqs = <<>>) =>
            /\ response[s].status_code = 200
            /\ response[s].body.score = Zero
            /\ response[s].body.correct = 0
            /\ response[s].body.total = 0
            /\ response[s].body.results = <<>>

\* C10: the failure modes of the video fetch stay distinguishable: without
\* a credential the request fails before any call is made, a non-success
\* answer of the search call fails with that answer's own status, and a
\* timeout fails with 504.
C10_FailureModesDistinct ==
    \A s \in Slots :
        Done(s, "generate") =>
            /\ response[s].detail = "YouTube API key not configured" =>
                  ~YOUTUBE_API_KEY /\ ~local[s].search.called
            /\ (local[s].search.timeout \/ local[s].video.timeout) =>
                  response[s].status_code = 504
            /\ (/\ local[s].search.called /\ ~local[s].search.timeout
                /\ local[s].search.status_code # 200) =>
                  response[s].status_code = local[s].search.status_code

\* the positions of the documents of coll that belong to user_id
Owned(coll, user_id) == {i \in DOMAIN coll : coll[i].user_id = user_id}

\* the k-th smallest element of the set of positions S
Kth(S, k) == CHOOSE i \in S : Cardinality({j \in S : j <= i}) = k

\* the sum of quiz_score over the positions of S within lo..hi
RECURSIVE ScoreTotal(_, _, _, _)
ScoreTotal(coll, S, lo, hi) ==
    IF lo > hi THEN Zero
    ELSE IF lo = hi
    THEN IF lo \in S THEN FracAdd(Zero, coll[lo].quiz_score) ELSE Zero
    ELSE LET mid == (lo + hi) \div 2
         IN  FracAdd(ScoreTotal(coll, S, lo, mid), ScoreTotal(coll, S, mid + 1, hi))

\* C6: a progress query made when no request changes the store returns 200
\* with total_courses = number of stored courses of the user, total_quizzes
\* = number of stored submission records of the user, average_score = mean
\* of quiz_score over all those records (0 when there are none), and
\* courses = one {id, title, topic, created_at} per owned course in
\* insertion order.
C6_ProgressTotals ==
    \A s \in Slots :
        (/\ Done(s, "progress")
         /\ request[s].at.courses = Len(courses)
         /\ request[s].at.submissions = Len(quiz_submissions)) =>
            LET mine == Owned(courses, request[s].user_id)
                subs == Owned(quiz_submissions, request[s].user_id)
                total == ScoreTotal(quiz_submissions, subs, 1, Len(quiz_submissions))
                body == response[s].body
            IN  /\ response[s].status_code = 200
                /\ body.total_courses = Cardinality(mine)
                /\ body.total_quizzes = Cardinality(subs)
                /\ IF subs = {} THEN body.average_score = Zero
                   ELSE body.average_score.num * total.den * Cardinality(subs)
                            = total.num * body.average_score.den
                /\ Len(body.courses) = Cardinality(mine)
                /\ \A k \in 1..Cardinality(mine) :
                      LET c == courses[Kth(mine, k)]
                      IN  body.courses[k] =
                              [id |-> OidString(c._id), title |-> c.title,
                               topic |-> c.topic,
                               created_at |-> [iso |-> c.created_at]]

====
